---- MODULE Spec2Model ----
(***************************************************************************)
(* apply_design_system.py: a batch rewriting tool.  An ordered table of    *)
(* literal (old, new) pairs is applied, rule after rule, to the text of    *)
(* each file of a fixed list; a file is written back only when its text    *)
(* changed, and one line per file is printed.                              *)
(*                                                                         *)
(* A text is a sequence of one-character strings, so that str.replace is   *)
(* modelled by what it does on characters.                                 *)
(***************************************************************************)
EXTENDS Naturals, Sequences, FiniteSets, TLC

\* Bounds of the model.
NumFiles == 2   \* main() is run over the first NumFiles entries of FILES
MaxFrags == 3   \* an input text is made of at most MaxFrags fragments
MaxRuns == 2    \* the tool is invoked at most MaxRuns times in a row

\* FILES (lines 9-31).
FILES == <<
    "ComparisonMatrix.tsx",
    "GhostDataChart.tsx",
    "SigmoidEditor.tsx",
    "AIScorecard.tsx",
    "StrategistInsights.tsx",
    "DeadbandGauges.tsx",
    "AnomalyLog.tsx",
    "AmazonConnect.tsx",
    "AuditHistory.tsx",
    "GalaxyMap.tsx",
    "IntelligenceBriefing.tsx",
    "EnterpriseOverview.tsx",
    "ProfitCalculator.tsx",
    "CampaignBrowser.tsx",
    "LiveShadowTicker.tsx",
    "MultiAgentTelemetry.tsx",
    "UCCLPanel.tsx",
    "LogViewer.tsx",
    "VerifiedSourceBadge.tsx",
    "MissedProfitTicker.tsx",
    "DecisionContextModal.tsx" >>

\* REPLACEMENTS (lines 34-144), in source order.
REPLACEMENTS == <<
    \* 1 (line 36): 'bg-[#121212] backdrop-blur border border-slate-800 rounded-2xl' -> 'rounded-2xl border border-gray-800 bg-white/[0.02]'
    << <<"b","g","-","[","#","1","2","1","2","1","2","]"," ","b","a","c","k","d","r","o","p","-","b","l","u","r"," ","b","o","r","d","e","r"," ","b","o","r","d","e","r","-","s","l","a","t","e","-","8","0","0"," ","r","o","u","n","d","e","d","-","2","x","l">>,
       <<"r","o","u","n","d","e","d","-","2","x","l"," ","b","o","r","d","e","r"," ","b","o","r","d","e","r","-","g","r","a","y","-","8","0","0"," ","b","g","-","w","h","i","t","e","/","[","0",".","0","2","]">> >>,
    \* 2 (line 39): 'bg-[#121212]' -> 'bg-gray-950'
    << <<"b","g","-","[","#","1","2","1","2","1","2","]">>,
       <<"b","g","-","g","r","a","y","-","9","5","0">> >>,
    \* 3 (line 40): 'bg-[#1a1a1a]' -> 'bg-gray-900'
    << <<"b","g","-","[","#","1","a","1","a","1","a","]">>,
       <<"b","g","-","g","r","a","y","-","9","0","0">> >>,
    \* 4 (line 41): 'bg-[#0a0f1c]' -> 'bg-gray-950'
    << <<"b","g","-","[","#","0","a","0","f","1","c","]">>,
       <<"b","g","-","g","r","a","y","-","9","5","0">> >>,
    \* 5 (line 42): 'bg-[#0a1020]' -> 'bg-gray-950'
    << <<"b","g","-","[","#","0","a","1","0","2","0","]">>,
       <<"b","g","-","g","r","a","y","-","9","5","0">> >>,
    \* 6 (line 43): 'bg-[#0F172A]' -> 'bg-gray-950'
    << <<"b","g","-","[","#","0","F","1","7","2","A","]">>,
       <<"b","g","-","g","r","a","y","-","9","5","0">> >>,
    \* 7 (line 46): 'hover:bg-slate-800/50' -> 'hover:bg-white/[0.05]'
    << <<"h","o","v","e","r",":","b","g","-","s","l","a","t","e","-","8","0","0","/","5","0">>,
       <<"h","o","v","e","r",":","b","g","-","w","h","i","t","e","/","[","0",".","0","5","]">> >>,
    \* 8 (line 47): 'hover:bg-slate-700/30' -> 'hover:bg-white/[0.05]'
    << <<"h","o","v","e","r",":","b","g","-","s","l","a","t","e","-","7","0","0","/","3","0">>,
       <<"h","o","v","e","r",":","b","g","-","w","h","i","t","e","/","[","0",".","0","5","]">> >>,
    \* 9 (line 48): 'hover:bg-slate-800/30' -> 'hover:bg-white/[0.05]'
    << <<"h","o","v","e","r",":","b","g","-","s","l","a","t","e","-","8","0","0","/","3","0">>,
       <<"h","o","v","e","r",":","b","g","-","w","h","i","t","e","/","[","0",".","0","5","]">> >>,
    \* 10 (line 49): 'hover:bg-slate-800/20' -> 'hover:bg-white/[0.05]'
    << <<"h","o","v","e","r",":","b","g","-","s","l","a","t","e","-","8","0","0","/","2","0">>,
       <<"h","o","v","e","r",":","b","g","-","w","h","i","t","e","/","[","0",".","0","5","]">> >>,
    \* 11 (line 50): 'hover:bg-slate-700' -> 'hover:bg-gray-700'
    << <<"h","o","v","e","r",":","b","g","-","s","l","a","t","e","-","7","0","0">>,
       <<"h","o","v","e","r",":","b","g","-","g","r","a","y","-","7","0","0">> >>,
    \* 12 (line 51): 'hover:bg-slate-600' -> 'hover:bg-gray-600'
    << <<"h","o","v","e","r",":","b","g","-","s","l","a","t","e","-","6","0","0">>,
       <<"h","o","v","e","r",":","b","g","-","g","r","a","y","-","6","0","0">> >>,
    \* 13 (line 54): 'border-slate-800/50' -> 'border-gray-800'
    << <<"b","o","r","d","e","r","-","s","l","a","t","e","-","8","0","0","/","5","0">>,
       <<"b","o","r","d","e","r","-","g","r","a","y","-","8","0","0">> >>,
    \* 14 (line 55): 'border-slate-700/50' -> 'border-gray-800'
    << <<"b","o","r","d","e","r","-","s","l","a","t","e","-","7","0","0","/","5","0">>,
       <<"b","o","r","d","e","r","-","g","r","a","y","-","8","0","0">> >>,
    \* 15 (line 56): 'border-slate-800' -> 'border-gray-800'
    << <<"b","o","r","d","e","r","-","s","l","a","t","e","-","8","0","0">>,
       <<"b","o","r","d","e","r","-","g","r","a","y","-","8","0","0">> >>,
    \* 16 (line 57): 'border-slate-700' -> 'border-gray-700'
    << <<"b","o","r","d","e","r","-","s","l","a","t","e","-","7","0","0">>,
       <<"b","o","r","d","e","r","-","g","r","a","y","-","7","0","0">> >>,
    \* 17 (line 60): 'bg-slate-800/50' -> 'bg-white/[0.03]'
    << <<"b","g","-","s","l","a","t","e","-","8","0","0","/","5","0">>,
       <<"b","g","-","w","h","i","t","e","/","[","0",".","0","3","]">> >>,
    \* 18 (line 61): 'bg-slate-800/30' -> 'bg-white/[0.03]'
    << <<"b","g","-","s","l","a","t","e","-","8","0","0","/","3","0">>,
       <<"b","g","-","w","h","i","t","e","/","[","0",".","0","3","]">> >>,
    \* 19 (line 62): 'bg-slate-800/20' -> 'bg-white/[0.03]'
    << <<"b","g","-","s","l","a","t","e","-","8","0","0","/","2","0">>,
       <<"b","g","-","w","h","i","t","e","/","[","0",".","0","3","]">> >>,
    \* 20 (line 63): 'bg-slate-900/50' -> 'bg-gray-900'
    << <<"b","g","-","s","l","a","t","e","-","9","0","0","/","5","0">>,
       <<"b","g","-","g","r","a","y","-","9","0","0">> >>,
    \* 21 (line 64): 'bg-slate-800' -> 'bg-gray-800'
    << <<"b","g","-","s","l","a","t","e","-","8","0","0">>,
       <<"b","g","-","g","r","a","y","-","8","0","0">> >>,
    \* 22 (line 65): 'bg-slate-900' -> 'bg-gray-900'
    << <<"b","g","-","s","l","a","t","e","-","9","0","0">>,
       <<"b","g","-","g","r","a","y","-","9","0","0">> >>,
    \* 23 (line 66): 'bg-slate-700' -> 'bg-gray-700'
    << <<"b","g","-","s","l","a","t","e","-","7","0","0">>,
       <<"b","g","-","g","r","a","y","-","7","0","0">> >>,
    \* 24 (line 67): 'bg-slate-500/20' -> 'bg-gray-500/20'
    << <<"b","g","-","s","l","a","t","e","-","5","0","0","/","2","0">>,
       <<"b","g","-","g","r","a","y","-","5","0","0","/","2","0">> >>,
    \* 25 (line 70): 'text-slate-600' -> 'text-gray-500'
    << <<"t","e","x","t","-","s","l","a","t","e","-","6","0","0">>,
       <<"t","e","x","t","-","g","r","a","y","-","5","0","0">> >>,
    \* 26 (line 71): 'text-slate-500' -> 'text-gray-500'
    << <<"t","e","x","t","-","s","l","a","t","e","-","5","0","0">>,
       <<"t","e","x","t","-","g","r","a","y","-","5","0","0">> >>,
    \* 27 (line 72): 'text-slate-400' -> 'text-gray-400'
    << <<"t","e","x","t","-","s","l","a","t","e","-","4","0","0">>,
       <<"t","e","x","t","-","g","r","a","y","-","4","0","0">> >>,
    \* 28 (line 73): 'text-slate-300' -> 'text-gray-300'
    << <<"t","e","x","t","-","s","l","a","t","e","-","3","0","0">>,
       <<"t","e","x","t","-","g","r","a","y","-","3","0","0">> >>,
    \* 29 (line 76): 'border-emerald-500/30' -> 'border-success-500/20'
    << <<"b","o","r","d","e","r","-","e","m","e","r","a","l","d","-","5","0","0","/","3","0">>,
       <<"b","o","r","d","e","r","-","s","u","c","c","e","s","s","-","5","0","0","/","2","0">> >>,
    \* 30 (line 77): 'border-emerald-500/20' -> 'border-success-500/15'
    << <<"b","o","r","d","e","r","-","e","m","e","r","a","l","d","-","5","0","0","/","2","0">>,
       <<"b","o","r","d","e","r","-","s","u","c","c","e","s","s","-","5","0","0","/","1","5">> >>,
    \* 31 (line 78): 'bg-emerald-900/50' -> 'bg-success-500/5'
    << <<"b","g","-","e","m","e","r","a","l","d","-","9","0","0","/","5","0">>,
       <<"b","g","-","s","u","c","c","e","s","s","-","5","0","0","/","5">> >>,
    \* 32 (line 79): 'bg-emerald-900/40' -> 'bg-success-500/5'
    << <<"b","g","-","e","m","e","r","a","l","d","-","9","0","0","/","4","0">>,
       <<"b","g","-","s","u","c","c","e","s","s","-","5","0","0","/","5">> >>,
    \* 33 (line 80): 'bg-emerald-900/30' -> 'bg-success-500/5'
    << <<"b","g","-","e","m","e","r","a","l","d","-","9","0","0","/","3","0">>,
       <<"b","g","-","s","u","c","c","e","s","s","-","5","0","0","/","5">> >>,
    \* 34 (line 81): 'bg-emerald-900/20' -> 'bg-success-500/5'
    << <<"b","g","-","e","m","e","r","a","l","d","-","9","0","0","/","2","0">>,
       <<"b","g","-","s","u","c","c","e","s","s","-","5","0","0","/","5">> >>,
    \* 35 (line 82): 'bg-emerald-900/10' -> 'bg-success-500/5'
    << <<"b","g","-","e","m","e","r","a","l","d","-","9","0","0","/","1","0">>,
       <<"b","g","-","s","u","c","c","e","s","s","-","5","0","0","/","5">> >>,
    \* 36 (line 83): 'bg-emerald-800/20' -> 'bg-success-500/5'
    << <<"b","g","-","e","m","e","r","a","l","d","-","8","0","0","/","2","0">>,
       <<"b","g","-","s","u","c","c","e","s","s","-","5","0","0","/","5">> >>,
    \* 37 (line 84): 'bg-emerald-500/20' -> 'bg-success-500/10'
    << <<"b","g","-","e","m","e","r","a","l","d","-","5","0","0","/","2","0">>,
       <<"b","g","-","s","u","c","c","e","s","s","-","5","0","0","/","1","0">> >>,
    \* 38 (line 85): 'bg-emerald-500/10' -> 'bg-success-500/10'
    << <<"b","g","-","e","m","e","r","a","l","d","-","5","0","0","/","1","0">>,
       <<"b","g","-","s","u","c","c","e","s","s","-","5","0","0","/","1","0">> >>,
    \* 39 (line 86): 'bg-emerald-500' -> 'bg-success-500'
    << <<"b","g","-","e","m","e","r","a","l","d","-","5","0","0">>,
       <<"b","g","-","s","u","c","c","e","s","s","-","5","0","0">> >>,
    \* 40 (line 87): 'bg-emerald-600' -> 'bg-success-600'
    << <<"b","g","-","e","m","e","r","a","l","d","-","6","0","0">>,
       <<"b","g","-","s","u","c","c","e","s","s","-","6","0","0">> >>,
    \* 41 (line 88): 'hover:bg-emerald-500' -> 'hover:bg-success-400'
    << <<"h","o","v","e","r",":","b","g","-","e","m","e","r","a","l","d","-","5","0","0">>,
       <<"h","o","v","e","r",":","b","g","-","s","u","c","c","e","s","s","-","4","0","0">> >>,
    \* 42 (line 89): 'text-emerald-300' -> 'text-success-300'
    << <<"t","e","x","t","-","e","m","e","r","a","l","d","-","3","0","0">>,
       <<"t","e","x","t","-","s","u","c","c","e","s","s","-","3","0","0">> >>,
    \* 43 (line 90): 'text-emerald-400' -> 'text-success-400'
    << <<"t","e","x","t","-","e","m","e","r","a","l","d","-","4","0","0">>,
       <<"t","e","x","t","-","s","u","c","c","e","s","s","-","4","0","0">> >>,
    \* 44 (line 91): 'text-emerald-500' -> 'text-success-500'
    << <<"t","e","x","t","-","e","m","e","r","a","l","d","-","5","0","0">>,
       <<"t","e","x","t","-","s","u","c","c","e","s","s","-","5","0","0">> >>,
    \* 45 (line 94): 'bg-red-500/20' -> 'bg-error-500/10'
    << <<"b","g","-","r","e","d","-","5","0","0","/","2","0">>,
       <<"b","g","-","e","r","r","o","r","-","5","0","0","/","1","0">> >>,
    \* 46 (line 95): 'bg-red-500/10' -> 'bg-error-500/10'
    << <<"b","g","-","r","e","d","-","5","0","0","/","1","0">>,
       <<"b","g","-","e","r","r","o","r","-","5","0","0","/","1","0">> >>,
    \* 47 (line 96): 'bg-red-900/50' -> 'bg-error-500/10'
    << <<"b","g","-","r","e","d","-","9","0","0","/","5","0">>,
       <<"b","g","-","e","r","r","o","r","-","5","0","0","/","1","0">> >>,
    \* 48 (line 97): 'bg-red-900/30' -> 'bg-error-500/10'
    << <<"b","g","-","r","e","d","-","9","0","0","/","3","0">>,
       <<"b","g","-","e","r","r","o","r","-","5","0","0","/","1","0">> >>,
    \* 49 (line 98): 'bg-red-600' -> 'bg-error-600'
    << <<"b","g","-","r","e","d","-","6","0","0">>,
       <<"b","g","-","e","r","r","o","r","-","6","0","0">> >>,
    \* 50 (line 99): 'bg-red-500' -> 'bg-error-500'
    << <<"b","g","-","r","e","d","-","5","0","0">>,
       <<"b","g","-","e","r","r","o","r","-","5","0","0">> >>,
    \* 51 (line 100): 'hover:bg-red-500' -> 'hover:bg-error-500'
    << <<"h","o","v","e","r",":","b","g","-","r","e","d","-","5","0","0">>,
       <<"h","o","v","e","r",":","b","g","-","e","r","r","o","r","-","5","0","0">> >>,
    \* 52 (line 101): 'text-red-400' -> 'text-error-400'
    << <<"t","e","x","t","-","r","e","d","-","4","0","0">>,
       <<"t","e","x","t","-","e","r","r","o","r","-","4","0","0">> >>,
    \* 53 (line 102): 'text-red-500' -> 'text-error-500'
    << <<"t","e","x","t","-","r","e","d","-","5","0","0">>,
       <<"t","e","x","t","-","e","r","r","o","r","-","5","0","0">> >>,
    \* 54 (line 105): 'border-amber-500/30' -> 'border-warning-500/20'
    << <<"b","o","r","d","e","r","-","a","m","b","e","r","-","5","0","0","/","3","0">>,
       <<"b","o","r","d","e","r","-","w","a","r","n","i","n","g","-","5","0","0","/","2","0">> >>,
    \* 55 (line 106): 'bg-amber-500/10' -> 'bg-warning-500/5'
    << <<"b","g","-","a","m","b","e","r","-","5","0","0","/","1","0">>,
       <<"b","g","-","w","a","r","n","i","n","g","-","5","0","0","/","5">> >>,
    \* 56 (line 107): 'bg-amber-500/20' -> 'bg-warning-500/5'
    << <<"b","g","-","a","m","b","e","r","-","5","0","0","/","2","0">>,
       <<"b","g","-","w","a","r","n","i","n","g","-","5","0","0","/","5">> >>,
    \* 57 (line 108): 'bg-amber-500' -> 'bg-warning-500'
    << <<"b","g","-","a","m","b","e","r","-","5","0","0">>,
       <<"b","g","-","w","a","r","n","i","n","g","-","5","0","0">> >>,
    \* 58 (line 109): 'text-amber-400' -> 'text-warning-400'
    << <<"t","e","x","t","-","a","m","b","e","r","-","4","0","0">>,
       <<"t","e","x","t","-","w","a","r","n","i","n","g","-","4","0","0">> >>,
    \* 59 (line 110): 'text-yellow-400' -> 'text-warning-400'
    << <<"t","e","x","t","-","y","e","l","l","o","w","-","4","0","0">>,
       <<"t","e","x","t","-","w","a","r","n","i","n","g","-","4","0","0">> >>,
    \* 60 (line 113): 'border-purple-500/30' -> 'border-brand-500/20'
    << <<"b","o","r","d","e","r","-","p","u","r","p","l","e","-","5","0","0","/","3","0">>,
       <<"b","o","r","d","e","r","-","b","r","a","n","d","-","5","0","0","/","2","0">> >>,
    \* 61 (line 114): 'border-purple-500/20' -> 'border-brand-500/20'
    << <<"b","o","r","d","e","r","-","p","u","r","p","l","e","-","5","0","0","/","2","0">>,
       <<"b","o","r","d","e","r","-","b","r","a","n","d","-","5","0","0","/","2","0">> >>,
    \* 62 (line 115): 'bg-purple-900/30' -> 'bg-brand-500/10'
    << <<"b","g","-","p","u","r","p","l","e","-","9","0","0","/","3","0">>,
       <<"b","g","-","b","r","a","n","d","-","5","0","0","/","1","0">> >>,
    \* 63 (line 116): 'bg-purple-900/20' -> 'bg-brand-500/10'
    << <<"b","g","-","p","u","r","p","l","e","-","9","0","0","/","2","0">>,
       <<"b","g","-","b","r","a","n","d","-","5","0","0","/","1","0">> >>,
    \* 64 (line 117): 'bg-purple-800/30' -> 'bg-brand-500/10'
    << <<"b","g","-","p","u","r","p","l","e","-","8","0","0","/","3","0">>,
       <<"b","g","-","b","r","a","n","d","-","5","0","0","/","1","0">> >>,
    \* 65 (line 118): 'bg-purple-500/20' -> 'bg-brand-500/10'
    << <<"b","g","-","p","u","r","p","l","e","-","5","0","0","/","2","0">>,
       <<"b","g","-","b","r","a","n","d","-","5","0","0","/","1","0">> >>,
    \* 66 (line 119): 'bg-purple-500/10' -> 'bg-brand-500/10'
    << <<"b","g","-","p","u","r","p","l","e","-","5","0","0","/","1","0">>,
       <<"b","g","-","b","r","a","n","d","-","5","0","0","/","1","0">> >>,
    \* 67 (line 120): 'bg-purple-600' -> 'bg-brand-600'
    << <<"b","g","-","p","u","r","p","l","e","-","6","0","0">>,
       <<"b","g","-","b","r","a","n","d","-","6","0","0">> >>,
    \* 68 (line 121): 'bg-purple-500' -> 'bg-brand-500'
    << <<"b","g","-","p","u","r","p","l","e","-","5","0","0">>,
       <<"b","g","-","b","r","a","n","d","-","5","0","0">> >>,
    \* 69 (line 122): 'hover:bg-purple-700' -> 'hover:bg-brand-600'
    << <<"h","o","v","e","r",":","b","g","-","p","u","r","p","l","e","-","7","0","0">>,
       <<"h","o","v","e","r",":","b","g","-","b","r","a","n","d","-","6","0","0">> >>,
    \* 70 (line 123): 'hover:bg-purple-500' -> 'hover:bg-brand-500'
    << <<"h","o","v","e","r",":","b","g","-","p","u","r","p","l","e","-","5","0","0">>,
       <<"h","o","v","e","r",":","b","g","-","b","r","a","n","d","-","5","0","0">> >>,
    \* 71 (line 124): 'text-purple-400' -> 'text-brand-400'
    << <<"t","e","x","t","-","p","u","r","p","l","e","-","4","0","0">>,
       <<"t","e","x","t","-","b","r","a","n","d","-","4","0","0">> >>,
    \* 72 (line 125): 'text-purple-500' -> 'text-brand-500'
    << <<"t","e","x","t","-","p","u","r","p","l","e","-","5","0","0">>,
       <<"t","e","x","t","-","b","r","a","n","d","-","5","0","0">> >>,
    \* 73 (line 126): 'text-purple-300' -> 'text-brand-300'
    << <<"t","e","x","t","-","p","u","r","p","l","e","-","3","0","0">>,
       <<"t","e","x","t","-","b","r","a","n","d","-","3","0","0">> >>,
    \* 74 (line 127): 'ring-purple-500' -> 'ring-brand-500'
    << <<"r","i","n","g","-","p","u","r","p","l","e","-","5","0","0">>,
       <<"r","i","n","g","-","b","r","a","n","d","-","5","0","0">> >>,
    \* 75 (line 128): 'focus:ring-purple-500' -> 'focus:ring-brand-500'
    << <<"f","o","c","u","s",":","r","i","n","g","-","p","u","r","p","l","e","-","5","0","0">>,
       <<"f","o","c","u","s",":","r","i","n","g","-","b","r","a","n","d","-","5","0","0">> >>,
    \* 76 (line 131): 'text-blue-400' -> 'text-blue-light-400'
    << <<"t","e","x","t","-","b","l","u","e","-","4","0","0">>,
       <<"t","e","x","t","-","b","l","u","e","-","l","i","g","h","t","-","4","0","0">> >>,
    \* 77 (line 132): 'text-blue-300' -> 'text-blue-light-300'
    << <<"t","e","x","t","-","b","l","u","e","-","3","0","0">>,
       <<"t","e","x","t","-","b","l","u","e","-","l","i","g","h","t","-","3","0","0">> >>,
    \* 78 (line 133): 'bg-blue-500/20' -> 'bg-brand-500/10'
    << <<"b","g","-","b","l","u","e","-","5","0","0","/","2","0">>,
       <<"b","g","-","b","r","a","n","d","-","5","0","0","/","1","0">> >>,
    \* 79 (line 134): 'bg-blue-600' -> 'bg-brand-600'
    << <<"b","g","-","b","l","u","e","-","6","0","0">>,
       <<"b","g","-","b","r","a","n","d","-","6","0","0">> >>,
    \* 80 (line 135): 'bg-blue-500' -> 'bg-brand-500'
    << <<"b","g","-","b","l","u","e","-","5","0","0">>,
       <<"b","g","-","b","r","a","n","d","-","5","0","0">> >>,
    \* 81 (line 138): 'focus:ring-2 focus:ring-brand-500' -> 'focus:outline-hidden focus:ring-3 focus:ring-brand-500/10'
    << <<"f","o","c","u","s",":","r","i","n","g","-","2"," ","f","o","c","u","s",":","r","i","n","g","-","b","r","a","n","d","-","5","0","0">>,
       <<"f","o","c","u","s",":","o","u","t","l","i","n","e","-","h","i","d","d","e","n"," ","f","o","c","u","s",":","r","i","n","g","-","3"," ","f","o","c","u","s",":","r","i","n","g","-","b","r","a","n","d","-","5","0","0","/","1","0">> >>,
    \* 82 (line 141): ' font-inter' -> ''
    << <<" ","f","o","n","t","-","i","n","t","e","r">>,
       <<>> >>,
    \* 83 (line 142): 'font-inter ' -> ''
    << <<"f","o","n","t","-","i","n","t","e","r"," ">>,
       <<>> >>,
    \* 84 (line 143): 'font-inter' -> ''
    << <<"f","o","n","t","-","i","n","t","e","r">>,
       <<>> >> >>

\* Slip: the table is gone through from its last rule to its first.
RuleReversed(k) == REPLACEMENTS[Len(REPLACEMENTS) + 1 - k]

\* for old, new in REPLACEMENTS: the k-th (old, new) pair the loop takes.
Rule(k) == REPLACEMENTS[k]

\* s[i..] starts with old.
MatchAt(s, old, i) ==
    /\ i + Len(old) - 1 <= Len(s)
    /\ \A j \in 1..Len(old) : s[i + j - 1] = old[j]

\* str.replace(old, new) for a non-empty old (no pattern of the table is empty):
\* every non-overlapping occurrence, scanning from the left.  ReplaceFrom rewrites s[i..]: it copies up to the first
\* occurrence at or after i, puts new, and goes on behind that occurrence.
RECURSIVE ReplaceFrom(_, _, _, _)
ReplaceFrom(s, old, new, i) ==
    LET found == {j \in i..Len(s) : MatchAt(s, old, j)} IN
    IF found = {} THEN SubSeq(s, i, Len(s))
    ELSE LET j == CHOOSE m \in found : \A n \in found : m <= n IN
         SubSeq(s, i, j - 1) \o new \o ReplaceFrom(s, old, new, j + Len(old))

\* Slip: str.replace(old, new, 1), only the first occurrence.
ReplaceFirst(s, old, new) ==
    LET found == {j \in 1..Len(s) : MatchAt(s, old, j)} IN
    IF found = {} THEN s
    ELSE LET j == CHOOSE m \in found : \A n \in found : m <= n IN
         SubSeq(s, 1, j - 1) \o new \o SubSeq(s, j + Len(old), Len(s))

Replace(s, old, new) == ReplaceFrom(s, old, new, 1)

\* for old, new in REPLACEMENTS: content = content.replace(old, new)
\* ApplyRules(text, lo, hi) is text after the rules lo..hi have been applied to it in
\* table order, each to the text the one before it left.  The range is worked in two
\* halves, the first half first: t is the text the first half leaves (bound as a
\* value, so that it is computed once), and the second half goes on from t.
RECURSIVE ApplyRules(_, _, _)
ApplyRules(text, lo, hi) ==
    IF lo > hi THEN text
    ELSE IF lo = hi THEN Replace(text, Rule(lo)[1], Rule(lo)[2])
    ELSE CHOOSE result \in
             { ApplyRules(t, ((lo + hi) \div 2) + 1, hi) :
                   t \in {ApplyRules(text, lo, (lo + hi) \div 2)} } : TRUE

\* Slip: the table is gone through a second time over the result of the first pass.
RewrittenTwice(text) ==
    ApplyRules(ApplyRules(text, 1, Len(REPLACEMENTS)), 1, Len(REPLACEMENTS))

Rewritten(text) == ApplyRules(text, 1, Len(REPLACEMENTS))

\* Slip: the comparison is dropped and the file always written back.
DiffersAlways(a, b) == TRUE

\* content != original
Differs(a, b) == a # b

\* The content of a path that is not there (no text: a text holds characters).
Missing == <<"ENOENT">>

\* Slip: the file is opened in mode 'a', which keeps what it held.
NotTruncated(old) == old

\* open(filepath, 'w') leaves an empty file, whatever it held.
Truncated(old) == <<>>

Names == {FILES[i] : i \in 1..NumFiles}

VARIABLES
    fs,        \* the components directory: file name -> text, or Missing
    idx,       \* main: position of the for loop in FILES
    pc,        \* position of the run: "main", "read", "replace", "open_w", "write", "print"
    status,    \* "running", "done", "failed" (uncaught exception), "killed"
    content,   \* process_file: content
    original,  \* process_file: original
    changed,   \* main: the value process_file returned
    out,       \* the lines printed, each <<outcome, filename>>
    io,        \* the filesystem calls that succeeded in this run, each <<call, filename>>
    fault,     \* the environment makes the pending filesystem call fail
    run,       \* which invocation of the tool this is
    fs0,       \* the directory when this invocation started
    input,     \* the directory before the first invocation
    newtext    \* file name -> the text the rules left for it in this invocation

vars == <<fs, idx, pc, status, content, original, changed, out, io, fault, run, fs0,
          input, newtext>>

cur == FILES[idx]

\* ---------------------------------------------------------------- inputs

Fragments == <<
    <<"h","o","v","e","r",":">>,
    <<"b","g","-","s","l","a","t","e","-","8","0","0","/","5","0">>,
    <<"f","o","c","u","s",":","r","i","n","g","-","2"," ">>,
    <<"f","o","c","u","s",":","r","i","n","g","-","p","u","r","p","l","e","-","5","0","0">>,
    <<"f","o","n","t","-","i","n","t","e","r"," ">> >>

RECURSIVE Flatten(_)
Flatten(ss) == IF ss = <<>> THEN <<>> ELSE Head(ss) \o Flatten(Tail(ss))

\* Every text made of 1..MaxFrags fragments.
InputTexts ==
    UNION { { Flatten([i \in 1..n |-> Fragments[c[i]]]) : c \in [1..n -> 1..Len(Fragments)] }
            : n \in 1..MaxFrags }

\* A file that changes, one that does not, one that changes and loses a class, and
\* an empty file.
SampleTexts == {
    <<>>,
    <<"b","g","-","s","l","a","t","e","-","8","0","0"," ","b","o","r","d","e","r","-","s","l","a","t","e","-","7","0","0"," ","t","e","x","t","-","s","l","a","t","e","-","4","0","0">>,
    <<"r","o","u","n","d","e","d","-","2","x","l"," ","p","-","4">>,
    <<"h","o","v","e","r",":","b","g","-","e","m","e","r","a","l","d","-","5","0","0"," ","f","o","n","t","-","i","n","t","e","r">> }

Start(dir) ==
    /\ fs = dir
    /\ fs0 = dir
    /\ input = dir
    /\ newtext = dir
    /\ idx = 1
    /\ pc = "main"
    /\ status = "running"
    /\ content = <<>>
    /\ original = <<>>
    /\ changed = FALSE
    /\ out = <<>>
    /\ io = <<>>
    /\ fault = FALSE
    /\ run = 1

\* Any mix of missing files and sample texts.
Init == \E dir \in [Names -> SampleTexts \cup {Missing}] : Start(dir)

\* The first file holds an input text, the others are missing.
InitTexts ==
    \E t \in InputTexts : Start([n \in Names |-> IF n = FILES[1] THEN t ELSE Missing])

\* The first file holds exactly the pattern of one rule, the others are missing.
InitRules ==
    \E r \in 1..Len(REPLACEMENTS) :
        Start([n \in Names |-> IF n = FILES[1] THEN REPLACEMENTS[r][1] ELSE Missing])

\* ---------------------------------------------------------------- main

\* if os.path.exists(filepath): ... process_file(filepath)
FileExists ==
    /\ status = "running" /\ pc = "main" /\ idx <= NumFiles
    /\ fs[cur] # Missing
    /\ pc' = "read"
    /\ UNCHANGED <<fs, idx, status, content, original, changed, out, io, fault, run, fs0,
                   input, newtext>>

\* Slip: the os.path.exists test is dropped and process_file called all the same.
FileMissingProcessed ==
    /\ status = "running" /\ pc = "main" /\ idx <= NumFiles
    /\ fs[cur] = Missing
    /\ pc' = "read"
    /\ UNCHANGED <<fs, idx, status, content, original, changed, out, io, fault, run, fs0,
                   input, newtext>>

\* else: print(f"MISSING: {filename}")
FileMissing ==
    /\ status = "running" /\ pc = "main" /\ idx <= NumFiles
    /\ fs[cur] = Missing
    /\ out' = Append(out, <<"MISSING", cur>>)
    /\ idx' = idx + 1
    /\ UNCHANGED <<fs, pc, status, content, original, changed, io, fault, run, fs0,
                   input, newtext>>

\* The for loop is over: main returns.
MainReturn ==
    /\ status = "running" /\ pc = "main" /\ idx > NumFiles
    /\ status' = "done"
    /\ UNCHANGED <<fs, idx, pc, content, original, changed, out, io, fault, run, fs0,
                   input, newtext>>

\* Slip: the line is put in front of the lines printed so far.
ReportFirst ==
    /\ status = "running" /\ pc = "print"
    /\ out' = <<<<IF changed THEN "UPDATED" ELSE "NO CHANGES", cur>>>> \o out
    /\ idx' = idx + 1
    /\ pc' = "main"
    /\ UNCHANGED <<fs, status, content, original, changed, io, fault, run, fs0,
                   input, newtext>>

\* print(f"{'UPDATED' if changed else 'NO CHANGES'}: {filename}")
Report ==
    /\ status = "running" /\ pc = "print"
    /\ out' = Append(out, <<IF changed THEN "UPDATED" ELSE "NO CHANGES", cur>>)
    /\ idx' = idx + 1
    /\ pc' = "main"
    /\ UNCHANGED <<fs, status, content, original, changed, io, fault, run, fs0,
                   input, newtext>>

\* ---------------------------------------------------------------- process_file

\* Slip: the exception of open or read is caught and the file skipped.
ReadFileSkips ==
    /\ status = "running" /\ pc = "read"
    /\ IF fault \/ fs[cur] = Missing
       THEN /\ idx' = idx + 1
            /\ pc' = "main"
            /\ UNCHANGED <<content, original, io>>
       ELSE /\ content' = fs[cur]
            /\ original' = fs[cur]
            /\ io' = Append(io, <<"read", cur>>)
            /\ pc' = "replace"
            /\ UNCHANGED idx
    /\ UNCHANGED <<fs, status, changed, out, fault, run, fs0, input, newtext>>

\* with open(filepath, 'r') as f: content = f.read(); original = content
\* An exception of open or read is not caught anywhere.
ReadFile ==
    /\ status = "running" /\ pc = "read"
    /\ IF fault \/ fs[cur] = Missing
       THEN /\ status' = "failed"
            /\ UNCHANGED <<pc, content, original, io>>
       ELSE /\ content' = fs[cur]
            /\ original' = fs[cur]
            /\ io' = Append(io, <<"read", cur>>)
            /\ pc' = "replace"
            /\ UNCHANGED status
    /\ UNCHANGED <<fs, idx, changed, out, fault, run, fs0, input, newtext>>

\* The for loop over REPLACEMENTS, then: if content != original ... return False
ApplyReplacements ==
    /\ status = "running" /\ pc = "replace"
    /\ \E new \in {Rewritten(content)} :
        /\ content' = new
        /\ newtext' = [newtext EXCEPT ![cur] = new]
        /\ IF Differs(new, original)
           THEN pc' = "open_w" /\ UNCHANGED changed
           ELSE pc' = "print" /\ changed' = FALSE
    /\ UNCHANGED <<fs, idx, status, original, out, io, fault, run, fs0, input>>

\* with open(filepath, 'w') as f:
OpenWrite ==
    /\ status = "running" /\ pc = "open_w"
    /\ IF fault
       THEN /\ status' = "failed"
            /\ UNCHANGED <<fs, pc, io>>
       ELSE /\ fs' = [fs EXCEPT ![cur] = Truncated(@)]
            /\ io' = Append(io, <<"open_w", cur>>)
            /\ pc' = "write"
            /\ UNCHANGED status
    /\ UNCHANGED <<idx, content, original, changed, out, fault, run, fs0, input, newtext>>

\* f.write(content), the close that flushes it; return True.
\* A failing write or flush leaves whatever part of content had reached the file.
WriteFile ==
    /\ status = "running" /\ pc = "write"
    /\ IF fault
       THEN /\ \E k \in 0..(Len(content) - 1) :
                 fs' = [fs EXCEPT ![cur] = @ \o SubSeq(content, 1, k)]
            /\ status' = "failed"
            /\ UNCHANGED <<pc, io, changed>>
       ELSE /\ fs' = [fs EXCEPT ![cur] = @ \o content]
            /\ io' = Append(io, <<"write", cur>>)
            /\ changed' = TRUE
            /\ pc' = "print"
            /\ UNCHANGED status
    /\ UNCHANGED <<idx, content, original, out, fault, run, fs0, input, newtext>>

\* ---------------------------------------------------------------- environment

\* The next filesystem call of the run is going to fail (permissions, I/O error).
IOFault ==
    /\ status = "running" /\ pc \in {"read", "open_w", "write"}
    /\ ~fault
    /\ fault' = TRUE
    /\ UNCHANGED <<fs, idx, pc, status, content, original, changed, out, io, run, fs0,
                   input, newtext>>

\* The process is interrupted.  Between the open for writing and the close, any part
\* of content may have reached the file.
Interrupt ==
    /\ status = "running"
    /\ status' = "killed"
    /\ IF pc = "write"
       THEN \E k \in 0..Len(content) :
                fs' = [fs EXCEPT ![cur] = @ \o SubSeq(content, 1, k)]
       ELSE UNCHANGED fs
    /\ UNCHANGED <<idx, pc, content, original, changed, out, io, fault, run, fs0,
                   input, newtext>>

\* The tool is run again over the directory the previous run left.
Rerun ==
    /\ status = "done" /\ run < MaxRuns
    /\ run' = run + 1
    /\ status' = "running"
    /\ idx' = 1
    /\ pc' = "main"
    /\ content' = <<>>
    /\ original' = <<>>
    /\ changed' = FALSE
    /\ out' = <<>>
    /\ io' = <<>>
    /\ fs0' = fs
    /\ newtext' = fs
    /\ UNCHANGED <<fs, fault, input>>

Step ==
    \/ FileExists
    \/ FileMissing
    \/ MainReturn
    \/ Report
    \/ ReadFile
    \/ ApplyReplacements
    \/ OpenWrite
    \/ WriteFile

Next ==
    \/ FileExists
    \/ FileMissing
    \/ MainReturn
    \/ Report
    \/ ReadFile
    \/ ApplyReplacements
    \/ OpenWrite
    \/ WriteFile
    \/ IOFault
    \/ Interrupt
    \/ Rerun

Spec == Init /\ [][Next]_vars

SpecTexts == InitTexts /\ [][Next]_vars

SpecRules == InitRules /\ [][Next]_vars

\* The interpreter runs the program on: every step of it that can be taken is taken.
FairSpec == Init /\ [][Next]_vars /\ WF_vars(Step)

\* ---------------------------------------------------------------- claims

BgSlate800_50 == <<"b","g","-","s","l","a","t","e","-","8","0","0","/","5","0">>
HoverBgSlate800_50 == <<"h","o","v","e","r",":","b","g","-","s","l","a","t","e","-","8","0","0","/","5","0">>
BgWhite003 == <<"b","g","-","w","h","i","t","e","/","[","0",".","0","3","]">>
HoverBgWhite005 == <<"h","o","v","e","r",":","b","g","-","w","h","i","t","e","/","[","0",".","0","5","]">>
BgGray800_50 == <<"b","g","-","g","r","a","y","-","8","0","0","/","5","0">>
FontInter == <<"f","o","n","t","-","i","n","t","e","r">>
FocusRingPurple == <<"f","o","c","u","s",":","r","i","n","g","-","2"," ","f","o","c","u","s",":","r","i","n","g","-","p","u","r","p","l","e","-","5","0","0">>
FocusRingOut == <<"f","o","c","u","s",":","o","u","t","l","i","n","e","-","h","i","d","d","e","n"," ","f","o","c","u","s",":","r","i","n","g","-","3"," ","f","o","c","u","s",":","r","i","n","g","-","b","r","a","n","d","-","5","0","0","/","1","0">>
FocusFontInterRingPurple == <<"f","o","c","u","s",":","r","i","n","g","-","2"," ","f","o","n","t","-","i","n","t","e","r"," ","f","o","c","u","s",":","r","i","n","g","-","p","u","r","p","l","e","-","5","0","0">>
FocusRingBrand == <<"f","o","c","u","s",":","r","i","n","g","-","2"," ","f","o","c","u","s",":","r","i","n","g","-","b","r","a","n","d","-","5","0","0">>

\* Two characters no rule and no input holds: they stand for an occurrence while the
\* rest of the text is rewritten.
MarkA == <<"@">>
MarkB == <<"%">>

Contains(s, p) == \E i \in 1..Len(s) : MatchAt(s, p, i)

IsPrefix(p, s) == Len(p) <= Len(s) /\ SubSeq(s, 1, Len(p)) = p

ProperSubstring(p, q) == p # q /\ Contains(q, p)

\* How many calls of one kind this run made on one file.
Calls(kind, name) == Cardinality({i \in 1..Len(io) : io[i] = <<kind, name>>})

\* process_file has just run its loop: original is the text read, content the result.
Rewrote ==
    /\ status = "running" /\ ~fault
    /\ pc = "open_w" \/ (pc = "print" /\ ~changed)

\* text with every occurrence of b, then of a, set aside, the rest rewritten, and the
\* occurrences put back as bOut and aOut.
RewrittenAround(text, b, bOut, a, aOut) ==
    Replace(Replace(Rewritten(Replace(Replace(text, b, MarkB), a, MarkA)),
                    MarkB, bOut), MarkA, aOut)

\* C1: whenever the pattern of one rule is a proper substring of the pattern of
\* another, the rule with the longer pattern stands earlier in REPLACEMENTS
\* (stated for the rule whose pattern the first file was given).
C1_MostSpecificFirst ==
    \A i, j \in 1..Len(REPLACEMENTS) :
        /\ input[FILES[1]] = REPLACEMENTS[j][1]
        /\ ProperSubstring(REPLACEMENTS[i][1], REPLACEMENTS[j][1])
        => j < i

\* C2 as claimed: in a text that contains "bg-slate-800/50", every occurrence of it
\* ends as "bg-white/[0.03]" (the rest of the text being rewritten as it would be
\* without them), and the rewrite brings no "bg-gray-800/50" into the text.
C2_AsClaimed ==
    Rewrote /\ Contains(original, BgSlate800_50) =>
        /\ content = RewrittenAround(original, MarkB, MarkB, BgSlate800_50, BgWhite003)
        /\ ~Contains(original, BgGray800_50) => ~Contains(content, BgGray800_50)

\* C2, amended: every occurrence of "bg-slate-800/50" that does not follow "hover:"
\* ends as "bg-white/[0.03]", every "hover:bg-slate-800/50" ends as
\* "hover:bg-white/[0.05]", and the rewrite brings no "bg-gray-800/50" into the text.
C2_SpecificRuleWins ==
    Rewrote /\ Contains(original, BgSlate800_50) =>
        /\ content = RewrittenAround(original, HoverBgSlate800_50, HoverBgWhite005,
                                     BgSlate800_50, BgWhite003)
        /\ ~Contains(original, BgGray800_50) => ~Contains(content, BgGray800_50)

C2_Witness ==
    /\ Rewrote
    /\ original = HoverBgSlate800_50 \o BgSlate800_50
    /\ content = HoverBgWhite005 \o BgWhite003

\* A file the tool was given with no "font-inter" in it.
NoFontInter(n) == input[n] # Missing /\ ~Contains(input[n], FontInter)

\* The i-th file of the list is left alone by this run, as far as the run has got.
LeftAlone(i) ==
    LET n == FILES[i] IN
    /\ fs[n] = fs0[n]
    /\ Calls("open_w", n) = 0 /\ Calls("write", n) = 0
    /\ i <= Len(out) => out[i] = <<"NO CHANGES", n>>
    /\ idx = i => pc \notin {"open_w", "write"}
    /\ idx = i /\ pc = "print" => ~changed /\ content = original

\* C3 as claimed: a run of the tool over files an earlier run has processed changes
\* nothing: process_file returns False with the text it read, nothing is opened for
\* writing, and the line is NO CHANGES.
C3_AsClaimed ==
    run >= 2 => \A i \in 1..NumFiles : fs0[FILES[i]] # Missing => LeftAlone(i)

\* C3, amended: the same, for every file whose text held no "font-inter" before the
\* first run.
C3_SecondRunNoOp ==
    run >= 2 => \A i \in 1..NumFiles : NoFontInter(FILES[i]) => LeftAlone(i)

C3_Witness ==
    /\ run = 2 /\ status = "done"
    /\ NoFontInter(FILES[1])
    /\ fs[FILES[1]] # input[FILES[1]]
    /\ out[1] = <<"NO CHANGES", FILES[1]>>

\* C4: process_file returns True and the file is overwritten exactly when the text
\* the rules left differs from the text read; otherwise the file is neither opened
\* for writing nor written and the line is NO CHANGES.
C4_WriteIffChanged ==
    /\ status = "running" /\ pc = "print" =>
        /\ changed <=> content # original
        /\ Calls("open_w", cur) = (IF changed THEN 1 ELSE 0)
        /\ Calls("write", cur) = (IF changed THEN 1 ELSE 0)
        /\ fs[cur] = content
        /\ ~changed => fs[cur] = fs0[cur]
    /\ \A i \in 1..Len(out) :
        LET n == FILES[i] IN
        /\ out[i][1] = "UPDATED" =>
              newtext[n] # fs0[n] /\ Calls("write", n) = 1
        /\ out[i][1] = "NO CHANGES" =>
              newtext[n] = fs0[n] /\ fs[n] = fs0[n] /\ Calls("open_w", n) = 0

C4_Witness ==
    /\ status = "done" /\ run = 1
    /\ out[1][1] = "NO CHANGES" /\ out[2][1] = "UPDATED"
    /\ fs[FILES[1]] = fs0[FILES[1]]
    /\ fs[FILES[2]] = newtext[FILES[2]] /\ fs[FILES[2]] # fs0[FILES[2]]

\* C5: a file name whose path does not exist gets exactly the line MISSING, nothing
\* is read, opened, written or created under that name, and the run goes on with
\* the next file of the list.
C5_MissingReported ==
    /\ [](\A i \in 1..NumFiles :
            LET n == FILES[i] IN
            fs0[n] = Missing =>
                /\ fs[n] = Missing
                /\ \A e \in 1..Len(io) : io[e][2] # n
                /\ i <= Len(out) => out[i] = <<"MISSING", n>>)
    /\ [][status = "running" /\ pc = "main" /\ idx <= NumFiles /\ fs[cur] = Missing
            /\ status' = "running"
          => /\ out' = Append(out, <<"MISSING", cur>>)
             /\ idx' = idx + 1 /\ pc' = "main"
             /\ fs' = fs /\ io' = io]_vars

C5_Witness ==
    /\ status = "done"
    /\ fs0[FILES[1]] = Missing /\ fs[FILES[1]] = Missing
    /\ out[1] = <<"MISSING", FILES[1]>>
    /\ out[2] = <<"UPDATED", FILES[2]>>

\* C6 as claimed: when the process is interrupted, every file holds its complete
\* original text or its complete rewritten text.
C6_AsClaimed ==
    status = "killed" => \A n \in Names : fs[n] = fs0[n] \/ fs[n] = newtext[n]

\* C6, amended: when the process is interrupted, every file holds its complete
\* original text or a leading part of its rewritten text: nothing of it (the file
\* was emptied by the open for writing), some of it, or all of it.
C6_InterruptedFile ==
    status = "killed" =>
        \A n \in Names : fs[n] = fs0[n] \/ IsPrefix(fs[n], newtext[n])

C6_Witness ==
    /\ status = "killed" /\ pc = "write"
    /\ fs[cur] = <<>> /\ fs0[cur] # <<>> /\ newtext[cur] # <<>>

\* C7: a failing read, open for writing or write ends the run there: no line is
\* printed for that file, no later file is read, written or reported, nothing
\* happens afterwards, and the files updated before keep their new text.
C7_FailureIsFatal ==
    /\ [](status = "failed" =>
            /\ fault
            /\ Len(out) = idx - 1
            /\ \A i \in 1..NumFiles :
                 LET n == FILES[i] IN
                 /\ i > idx => fs[n] = fs0[n] /\ \A e \in 1..Len(io) : io[e][2] # n
                 /\ i < idx /\ out[i][1] = "UPDATED" =>
                       fs[n] = newtext[n] /\ newtext[n] # fs0[n])
    /\ [][fault /\ status = "running" /\ pc \in {"read", "open_w", "write"}
          => status' \in {"failed", "killed"} /\ out' = out /\ idx' = idx]_vars
    /\ [][status # "failed"]_vars

C7_Witness ==
    /\ status = "failed" /\ idx = 2 /\ pc = "read"
    /\ out = <<<<"UPDATED", FILES[1]>>>>
    /\ fs[FILES[1]] = newtext[FILES[1]] /\ fs[FILES[1]] # fs0[FILES[1]]
    /\ fs[FILES[2]] = fs0[FILES[2]]

\* C8: a run without failure and interruption ends, and when it has ended it has
\* printed exactly one line, UPDATED, NO CHANGES or MISSING, for each file of the
\* list, in the order of the list; no file is read or written more than once.
C8_OneLinePerFile ==
    /\ [](status = "done" =>
            /\ Len(out) = NumFiles
            /\ \A i \in 1..NumFiles :
                 out[i][2] = FILES[i] /\ out[i][1] \in {"UPDATED", "NO CHANGES", "MISSING"})
    /\ [](\A n \in Names :
            Calls("read", n) <= 1 /\ Calls("open_w", n) <= 1 /\ Calls("write", n) <= 1)
    /\ (status = "running") ~> (status \in {"done", "failed", "killed"})

C8_Witness ==
    /\ status = "done"
    /\ out = <<<<"UPDATED", FILES[1]>>, <<"MISSING", FILES[2]>>>>
    /\ io = <<<<"read", FILES[1]>>, <<"open_w", FILES[1]>>, <<"write", FILES[1]>>>>

\* C9: each rule works on the text the rule before it left, and the table is gone
\* through once: "focus:ring-2 focus:ring-purple-500" ends as
\* "focus:outline-hidden focus:ring-3 focus:ring-brand-500/10" (the focus ring rule
\* fires on what the ring-purple rule produced), while
\* "focus:ring-2 font-inter focus:ring-purple-500" ends as
\* "focus:ring-2 focus:ring-brand-500" (the focus ring rule is not tried again on what
\* the later font-inter rule produced).
C9_FullPassAccumulation ==
    Rewrote =>
        content = RewrittenAround(original, FocusFontInterRingPurple, FocusRingBrand,
                                  FocusRingPurple, FocusRingOut)

C9_Witness ==
    /\ Rewrote /\ run = 1
    /\ original = FocusRingPurple
    /\ content = FocusRingOut

\* C10: a text that is exactly the pattern of a rule is rewritten to exactly the
\* replacement of that rule.
C10_EveryRuleHonoured ==
    Rewrote =>
        \A r \in 1..Len(REPLACEMENTS) :
            original = REPLACEMENTS[r][1] => content = REPLACEMENTS[r][2]

====
